---- MODULE Spec2Model ----
(***************************************************************************)
(* A model of gol.py, an ncurses Game of Life.  The state is the state of  *)
(* the interpreter while the program runs: the two module globals the      *)
(* program reads and writes (seed_percentage, sleep_interval), the size of *)
(* the terminal window as curses reports it, the local variables of main() *)
(* and the position of the single thread of control (pc).                  *)
(*                                                                         *)
(* A grid is a Python list of rows, each a list of cells; it is modelled   *)
(* as a function from 0 .. len-1 to rows, so that indices are the source's *)
(* zero-based ones.  The empty list [] is the function with empty domain.  *)
(*                                                                         *)
(* Python's names hold references: `a = b' makes a and b one list, and a   *)
(* write through one name is seen through the other.  same_object holds    *)
(* the pairs {a, b} of main()'s grid names that are bound to one list.     *)
(***************************************************************************)
EXTENDS Integers, FiniteSets, Sequences, TLC

VARIABLES
    max_y,               \* stdscr.getmaxyx()[0], the window's height
    max_x,               \* stdscr.getmaxyx()[1], the window's width
    seed_percentage,     \* module global, set from sys.argv[1]
    sleep_interval,      \* module global, ms between iterations
    grid,                \* main(): the current generation
    next_grid,           \* main(): the generation under construction
    grandfather_grid,    \* main(): the lagged snapshot
    same_object,         \* which of main()'s three names are one list
    iterations,          \* main(): the displayed iteration counter
    iter_counter_active, \* main(): FALSE once an oscillation was reported
    changed,             \* main(): some cell changed in this step
    key,                 \* the value the last getch() returned
    stop,                \* why the last session (call of main) ended
    pc                   \* where the thread of control is

vars == <<max_y, max_x, seed_percentage, sleep_interval, grid, next_grid,
          grandfather_grid, same_object, iterations, iter_counter_active,
          changed, key, stop, pc>>

-----------------------------------------------------------------------------
(* Program constants.                                                      *)

dead_c == "-"
alive_c == "x"
x_padding == 1
y_padding == 7

\* sleep_interval += 50 / sleep_interval - 50
IntervalStep == 50
\* sleep_interval = 10
InitialInterval == 10

\* init_curses refuses a terminal smaller than 24 x 80.  The model keeps the
\* test and scales the two numbers down so that grids stay small.
TermMinY == 13
TermMinX == 5

-----------------------------------------------------------------------------
(* Bounds of the model.                                                    *)

\* The window's size ranges over MinY .. MaxY by MinX .. MaxX.  The width
\* starts one column below what init_curses accepts, so that a session can
\* find the window too small and a drawn grid can find it two columns
\* narrower; the height is the least init_curses accepts and is not varied.
MinY == TermMinY
MaxY == TermMinY
MinX == TermMinX - 1
MaxX == 6
\* sleep_interval is not raised above MaxInterval.
MaxInterval == 60
\* The iteration counter is not raised above MaxIterations.
MaxIterations == 6

\* Values of seed_percentage the program is started with.
SeedPercentages == {0, 10, 34}

\* What getch() can return: -1 (no key waiting) is "none".
Keys == {"none", "q", "p", "-", "+", "KEY_RESIZE", "Enter", "Space"}

-----------------------------------------------------------------------------
(* Grids.                                                                  *)

\* len(list)
len(l) == Cardinality(DOMAIN l)

\* [dead_c for x in xrange(0, cols + 1)] for _ in xrange(0, rows + 1)
EmptyGrid(cols, rows) == [y \in 0..rows |-> [x \in 0..cols |-> dead_c]]

\* The cells of a grid, as <<x, y>> pairs.
Cells(g) == {<<x, y>> : x \in 0..(len(g[0]) - 1), y \in 0..(len(g) - 1)}
CellsOf(g) == IF len(g) = 0 THEN {} ELSE Cells(g)

\* The cells of a grid that are alive.
AliveCells(g) == {c \in CellsOf(g) : g[c[2]][c[1]] = alive_c}

\* get_grid_dimensions(): <<cols, rows>> for a window of my by mx.
get_grid_dimensions(my, mx) == <<mx - x_padding - 2, my - y_padding - 3>>

\* int((seed_percentage / 100.0) * (rows * cols)): int() truncates toward 0.
Seeds(pct, cols, rows) ==
    LET n == pct * (rows * cols)
    IN  IF n >= 0 THEN n \div 100 ELSE -((-n) \div 100)

\* set_up_grid refusing a percentage outside 0 .. 100: it returns no grid.
set_up_grid_validating(my, mx, pct, seed_grid) ==
    LET dims  == get_grid_dimensions(my, mx)
        cols  == dims[1]
        rows  == dims[2]
        seeds == Seeds(pct, cols, rows)
        play  == {<<x, y>> : x \in 0..(cols - 1), y \in 0..(rows - 1)}
    IN  IF pct < 0 \/ pct > 100
        THEN {}
        ELSE IF seed_grid /\ seeds > 0
        THEN {[y \in 0..rows |-> [x \in 0..cols |->
                 IF <<x, y>> \in S THEN alive_c ELSE dead_c]] :
              S \in {T \in SUBSET play : T # {} /\ Cardinality(T) <= seeds}}
        ELSE {EmptyGrid(cols, rows)}

\* set_up_grid drawing its cells from the whole list, random.randint(0, rows)
\* and random.randint(0, cols).
set_up_grid_buffer_seeded(my, mx, pct, seed_grid) ==
    LET dims  == get_grid_dimensions(my, mx)
        cols  == dims[1]
        rows  == dims[2]
        seeds == Seeds(pct, cols, rows)
        play  == {<<x, y>> : x \in 0..cols, y \in 0..rows}
    IN  IF seed_grid /\ seeds > 0
        THEN {[y \in 0..rows |-> [x \in 0..cols |->
                 IF <<x, y>> \in S THEN alive_c ELSE dead_c]] :
              S \in {T \in SUBSET play : T # {} /\ Cardinality(T) <= seeds}}
        ELSE {EmptyGrid(cols, rows)}

\* set_up_grid(seed_grid): the grids it can return.  Each of the `seeds'
\* trials marks one cell of [0, cols) x [0, rows); trials may repeat.
set_up_grid(my, mx, pct, seed_grid) ==
    LET dims  == get_grid_dimensions(my, mx)
        cols  == dims[1]
        rows  == dims[2]
        seeds == Seeds(pct, cols, rows)
        play  == {<<x, y>> : x \in 0..(cols - 1), y \in 0..(rows - 1)}
    IN  IF seed_grid /\ seeds > 0
        THEN {[y \in 0..rows |-> [x \in 0..cols |->
                 IF <<x, y>> \in S THEN alive_c ELSE dead_c]] :
              S \in {T \in SUBSET play : T # {} /\ Cardinality(T) <= seeds}}
        ELSE {EmptyGrid(cols, rows)}

-----------------------------------------------------------------------------
(* The rule.                                                               *)

\* wrap_border stopping at the edges instead of wrapping.
wrap_border_clamped(x, y, g) ==
    LET rows == len(g)
        cols == len(g[0])
        x1 == IF x >= cols THEN cols - 1 ELSE IF x < 0 THEN 0 ELSE x
        y1 == IF y >= rows THEN rows - 1 ELSE IF y < 0 THEN 0 ELSE y
    IN  <<x1, y1>>

\* wrap_border wrapping at the play area's size, one less than the list's.
wrap_border_play(x, y, g) ==
    LET rows == len(g) - 1
        cols == len(g[0]) - 1
        x1 == IF x >= cols THEN x - cols ELSE IF x < 0 THEN cols + x ELSE x
        y1 == IF y >= rows THEN y - rows ELSE IF y < 0 THEN rows + y ELSE y
    IN  <<x1, y1>>

wrap_border(x, y, g) ==
    LET rows == len(g)
        cols == len(g[0])
        x1 == IF x >= cols THEN x - cols ELSE IF x < 0 THEN cols + x ELSE x
        y1 == IF y >= rows THEN y - rows ELSE IF y < 0 THEN rows + y ELSE y
    IN  <<x1, y1>>

get_coordinate_value(x, y, g) ==
    LET w == wrap_border(x, y, g)
    IN  g[w[2]][w[1]] = alive_c

B2N(b) == IF b THEN 1 ELSE 0

\* sum_adjecent_fields looking at (x + 1, y - 1) twice and never at
\* (x + 1, y + 1).
sum_adjecent_fields_one_diagonal(x, y, g) ==
      B2N(get_coordinate_value(x - 1, y, g))
    + B2N(get_coordinate_value(x - 1, y - 1, g))
    + B2N(get_coordinate_value(x - 1, y + 1, g))
    + B2N(get_coordinate_value(x + 1, y, g))
    + B2N(get_coordinate_value(x + 1, y - 1, g))
    + B2N(get_coordinate_value(x + 1, y - 1, g))
    + B2N(get_coordinate_value(x, y - 1, g))
    + B2N(get_coordinate_value(x, y + 1, g))

sum_adjecent_fields(x, y, g) ==
      B2N(get_coordinate_value(x - 1, y, g))
    + B2N(get_coordinate_value(x - 1, y - 1, g))
    + B2N(get_coordinate_value(x - 1, y + 1, g))
    + B2N(get_coordinate_value(x + 1, y, g))
    + B2N(get_coordinate_value(x + 1, y - 1, g))
    + B2N(get_coordinate_value(x + 1, y + 1, g))
    + B2N(get_coordinate_value(x, y - 1, g))
    + B2N(get_coordinate_value(x, y + 1, g))

\* decide_fate returning Dead at a sum of 4: a live cell with three live
\* neighbours dies.
decide_fate_dies_at_4(x, y, sum_fields, g) ==
    LET is_alive == get_coordinate_value(x, y, g)
        s == IF is_alive THEN sum_fields + 1 ELSE sum_fields
    IN  IF s = 3 THEN alive_c ELSE dead_c

\* decide_fate without the test of is_alive at a sum of 4.
decide_fate_born_at_4(x, y, sum_fields, g) ==
    LET is_alive == get_coordinate_value(x, y, g)
        s == IF is_alive THEN sum_fields + 1 ELSE sum_fields
    IN  IF s = 3 \/ s = 4 THEN alive_c ELSE dead_c

decide_fate(x, y, sum_fields, g) ==
    LET is_alive == get_coordinate_value(x, y, g)
        s == IF is_alive THEN sum_fields + 1 ELSE sum_fields
    IN  IF s = 3 THEN alive_c
        ELSE IF s = 4 THEN (IF is_alive THEN alive_c ELSE dead_c)
        ELSE dead_c

\* check_for_extinction with its two return values exchanged.
check_for_extinction_inverted(g) ==
    \E c \in CellsOf(g) : g[c[2]][c[1]] = alive_c

check_for_extinction(g) == \A c \in CellsOf(g) : g[c[2]][c[1]] # alive_c

-----------------------------------------------------------------------------
(* The body of main()'s loop, as functions of the grid.                    *)

\* The value lines 319-320 compute for the cell at (x, y).
new_value(x, y, g) == decide_fate(x, y, sum_adjecent_fields(x, y, g), g)

\* next_grid[y][x] = new_value raises IndexError for a cell of grid that
\* next_grid does not have (the window shrank since grid was made).
index_error(g, ng) ==
    \E c \in CellsOf(g) :
        \/ c[2] \notin DOMAIN ng
        \/ c[1] \notin DOMAIN ng[c[2]]

\* next_grid after the traversal of grid (lines 315-331): the cells the
\* traversal visits are assigned, the others keep what set_up_grid gave them.
traverse(g, ng) ==
    [y \in DOMAIN ng |-> [x \in DOMAIN ng[y] |->
        IF y \in DOMAIN g /\ x \in DOMAIN g[y]
        THEN new_value(x, y, g) ELSE ng[y][x]]]

\* some_change comparing the new value with dead_c, not with the old value.
some_change_from_dead(g) ==
    \E c \in CellsOf(g) : new_value(c[1], c[2], g) # dead_c

\* Whether the traversal executes changed = True (lines 321-322).
some_change(g) == \E c \in CellsOf(g) : new_value(c[1], c[2], g) # g[c[2]][c[1]]

\* draw(grid): stdscr.addstr(y_cnt, x_cnt, ...) fails for a position outside
\* the window and at the window's last position (lower right corner).  The
\* grid's cell (x, y) is drawn at (y + 1, x + 1).
draw_raises(g, my, mx) ==
    \E c \in CellsOf(g) :
        LET y_cnt == c[2] + 1
            x_cnt == c[1] + 1
        IN  \/ y_cnt >= my
            \/ x_cnt >= mx
            \/ (y_cnt = my - 1 /\ x_cnt = mx - 1)

\* The snapshot taken at every pass.
snapshot_every_step(n, g, ng, gg) == g

\* The snapshot taken after grid = next_grid instead of before it.
snapshot_after_install(n, g, ng, gg) == IF n % 2 = 0 THEN ng ELSE gg

\* The snapshot taken at the odd passes.
snapshot_odd(n, g, ng, gg) == IF n % 2 = 1 THEN g ELSE gg

\* if iterations % 2 == 0: grandfather_grid = grid (lines 333-334), with
\* grid g, next_grid ng and grandfather_grid gg: the new grandfather_grid.
snapshot(n, g, ng, gg) == IF n % 2 = 0 THEN g ELSE gg

\* main()'s names for grids.
Names == {"grid", "next_grid", "grandfather_grid"}

\* A name assigned a list while keeping the list it was bound to.
fresh_kept(name, same) == same

\* name = <a list just built>: name shares its list with no other name.
fresh(name, same) == {p \in same : name \notin p}

\* a = b: a leaves the names it shared a list with and joins b's.
assign(a, b, same) ==
    IF a = b THEN same
    ELSE LET rest == fresh(a, same)
             with_b == {c \in Names : {b, c} \in rest}
         IN  rest \cup {{a, b}} \cup {{a, c} : c \in with_b}

\* What the name a holds after `written' was stored through the name b:
\* the stored value when a and b are one list, else its old value.
seen(a, b, same, old, written) == IF {a, b} \in same THEN written ELSE old

\* sleep_interval += 50 (line 265)
slow_down(interval) == interval + IntervalStep

\* The counter counting on whether or not it is active.
count_always(active, n) == n + 1

\* if iter_counter_active: iterations += 1 (lines 360-361)
count(active, n) == IF active THEN n + 1 ELSE n

\* speed_up without the floor.
speed_up_unfloored(interval) == interval - IntervalStep

\* sleep_interval - 50 if sleep_interval - 50 >= 0 else 0 (lines 267-268)
speed_up(interval) ==
    IF interval - IntervalStep >= 0 THEN interval - IntervalStep ELSE 0

-----------------------------------------------------------------------------
(* The state machine.                                                      *)

Init ==
    /\ max_y \in MinY..MaxY
    /\ max_x \in MinX..MaxX
    /\ seed_percentage \in SeedPercentages
    /\ sleep_interval = InitialInterval
    /\ grid = << >>
    /\ next_grid = << >>
    /\ grandfather_grid = << >>
    /\ same_object = {}
    /\ iterations = 0
    /\ iter_counter_active = TRUE
    /\ changed = FALSE
    /\ key = "none"
    /\ stop = "none"
    /\ pc = "init"

\* main() returns or the program exits: main's locals are gone.
Leave(where, why) ==
    /\ pc' = where
    /\ stop' = why
    /\ grid' = << >>
    /\ next_grid' = << >>
    /\ grandfather_grid' = << >>
    /\ same_object' = {}
    /\ iterations' = 0
    /\ iter_counter_active' = TRUE
    /\ changed' = FALSE

\* main() returns: the loop of __main__ starts the next session.
Return(why) == Leave("init", why)

\* graceful_exit leaving main() only, as a return would.
Exit_returns(why) == Leave("init", why)

\* sys.exit from graceful_exit, or an exception that leaves the program.
Exit(why) == Leave("exit", why)

\* __main__'s loop body up to main()'s while: init_curses(), then main()
\* sets up and draws the seeded grid and initialises its locals.
StartSession ==
    /\ pc = "init"
    /\ key' = "none"
    /\ UNCHANGED <<max_y, max_x, seed_percentage, sleep_interval>>
    /\ IF max_y < TermMinY \/ max_x < TermMinX
       THEN Exit("TooSmall")
       ELSE \E g \in set_up_grid(max_y, max_x, seed_percentage, TRUE) :
              IF draw_raises(g, max_y, max_x)
              THEN Exit("TypeError")
              ELSE /\ grid' = g
                   /\ next_grid' = << >>
                   /\ grandfather_grid' = << >>
                   /\ same_object' = {}
                   /\ iterations' = 0
                   /\ iter_counter_active' = TRUE
                   /\ changed' = FALSE
                   /\ stop' = "none"
                   /\ pc' = "advance"

\* Lines 312-331: allocate next_grid for the window as it is now and fill
\* it from grid.  An IndexError makes main() return.  The cells are written
\* through the name next_grid; a name bound to the same list sees them.
\* (traverse reads the grid as it was before the first write, which is what
\* the loop reads as long as grid and next_grid are two lists.)
Advance ==
    /\ pc = "advance"
    /\ UNCHANGED <<max_y, max_x, seed_percentage, sleep_interval, key>>
    /\ \E ng \in set_up_grid(max_y, max_x, seed_percentage, FALSE) :
         IF index_error(grid, ng)
         THEN Return("IndexError")
         ELSE LET same == fresh("next_grid", same_object)
                  written == traverse(grid, ng)
              IN  /\ same_object' = same
                  /\ next_grid' = written
                  /\ grid' = seen("grid", "next_grid", same, grid, written)
                  /\ grandfather_grid' =
                        seen("grandfather_grid", "next_grid", same,
                             grandfather_grid, written)
                  /\ changed' = (changed \/ some_change(grid))
                  /\ pc' = "install"
                  /\ UNCHANGED <<iterations, iter_counter_active, stop>>

\* Lines 333-339: take the snapshot, make next_grid the grid, draw it.
\* draw's `raise ResizeError' constructs ResizeError without its msg
\* argument, which raises TypeError: `except ResizeError' does not catch it
\* and __main__ re-raises it.  put_msg swallows its curses.error.
Install ==
    /\ pc = "install"
    /\ UNCHANGED <<max_y, max_x, seed_percentage, sleep_interval, key>>
    /\ IF draw_raises(next_grid, max_y, max_x)
       THEN Exit("TypeError")
       ELSE /\ grandfather_grid' =
                  snapshot(iterations, grid, next_grid, grandfather_grid)
            /\ grid' = next_grid
            /\ same_object' =
                  assign("grid", "next_grid",
                         IF iterations % 2 = 0
                         THEN assign("grandfather_grid", "grid", same_object)
                         ELSE same_object)
            /\ pc' = "check_input"
            /\ UNCHANGED <<next_grid, iterations, iter_counter_active,
                           changed, stop>>

\* check_input(), called at line 341, reading the key k.
CheckInput(k) ==
    /\ pc = "check_input"
    /\ key' = k
    /\ UNCHANGED <<max_y, max_x, seed_percentage>>
    /\ CASE k = "q" ->
              /\ Exit("Quit")
              /\ UNCHANGED sleep_interval
         [] k = "p" ->
              /\ pc' = "pause"
              /\ UNCHANGED <<sleep_interval, grid, next_grid, grandfather_grid,
                             same_object,
                             iterations, iter_counter_active, changed, stop>>
         [] k = "-" ->
              /\ slow_down(sleep_interval) <= MaxInterval
              /\ sleep_interval' = slow_down(sleep_interval)
              /\ pc' = "classify"
              /\ UNCHANGED <<grid, next_grid, grandfather_grid,
                             same_object, iterations,
                             iter_counter_active, changed, stop>>
         [] k = "+" ->
              /\ sleep_interval' = speed_up(sleep_interval)
              /\ pc' = "classify"
              /\ UNCHANGED <<grid, next_grid, grandfather_grid,
                             same_object, iterations,
                             iter_counter_active, changed, stop>>
         [] k = "KEY_RESIZE" ->
              /\ Return("Resize")
              /\ UNCHANGED sleep_interval
         [] k \in {"Enter", "Space"} ->
              /\ Return("Reseed")
              /\ UNCHANGED sleep_interval
         [] OTHER ->
              /\ pc' = "classify"
              /\ UNCHANGED <<sleep_interval, grid, next_grid, grandfather_grid,
                             same_object,
                             iterations, iter_counter_active, changed, stop>>

\* pause(), called by check_input() for 'p': a blocking getch().  Back in
\* check_input q is still 'p', so it returns None whatever pause() read.
Pause(c) ==
    /\ pc = "pause"
    /\ c # "none"
    /\ key' = c
    /\ UNCHANGED <<max_y, max_x, seed_percentage, sleep_interval>>
    /\ IF c = "q"
       THEN Exit("Quit")
       ELSE /\ pc' = "classify"
            /\ UNCHANGED <<grid, next_grid, grandfather_grid,
                           same_object, iterations,
                           iter_counter_active, changed, stop>>

\* Classify with the oscillation branch ending like the equilibrium branch,
\* in pause() and return.
Classify_oscillation_stops ==
    /\ pc = "classify"
    /\ key' = "none"
    /\ UNCHANGED <<max_y, max_x, seed_percentage, sleep_interval, grid,
                   next_grid, grandfather_grid, same_object>>
    /\ IF ~changed
       THEN /\ stop' = IF check_for_extinction(grid)
                       THEN "Extinct" ELSE "Equilibrium"
            /\ pc' = "ack"
            /\ UNCHANGED <<iterations, iter_counter_active, changed>>
       ELSE IF next_grid = grandfather_grid
       THEN /\ stop' = "Oscillating"
            /\ pc' = "ack"
            /\ iter_counter_active' = FALSE
            /\ UNCHANGED <<iterations, changed>>
       ELSE /\ iter_counter_active => iterations < MaxIterations
            /\ iterations' = count(iter_counter_active, iterations)
            /\ changed' = FALSE
            /\ pc' = "advance"
            /\ UNCHANGED <<stop, iter_counter_active>>

\* Lines 344-364: the end of the loop body.
Classify ==
    /\ pc = "classify"
    /\ key' = "none"
    /\ UNCHANGED <<max_y, max_x, seed_percentage, sleep_interval, grid,
                   next_grid, grandfather_grid, same_object>>
    /\ IF ~changed
       THEN /\ stop' = IF check_for_extinction(grid)
                       THEN "Extinct" ELSE "Equilibrium"
            /\ pc' = "ack"
            /\ UNCHANGED <<iterations, iter_counter_active, changed>>
       ELSE LET active == iter_counter_active /\ next_grid # grandfather_grid
            IN  /\ active => iterations < MaxIterations
                /\ iter_counter_active' = active
                /\ iterations' = count(active, iterations)
                /\ changed' = FALSE
                /\ pc' = "advance"
                /\ UNCHANGED stop

\* pause() at line 351, then return.
Acknowledge(c) ==
    /\ pc = "ack"
    /\ c # "none"
    /\ key' = c
    /\ UNCHANGED <<max_y, max_x, seed_percentage, sleep_interval>>
    /\ IF c = "q" THEN Exit("Quit") ELSE Return(stop)

\* The user resizes the terminal window.
Resize ==
    /\ pc # "exit"
    /\ \E my \in MinY..MaxY, mx \in MinX..MaxX :
         /\ <<my, mx>> # <<max_y, max_x>>
         /\ max_y' = my
         /\ max_x' = mx
    /\ UNCHANGED <<seed_percentage, sleep_interval, grid, next_grid,
                   grandfather_grid, same_object, iterations,
                   iter_counter_active, changed, key, stop, pc>>

Next ==
    \/ StartSession
    \/ Advance
    \/ Install
    \/ \E k \in Keys : CheckInput(k)
    \/ \E c \in Keys : Pause(c)
    \/ Classify
    \/ \E c \in Keys : Acknowledge(c)
    \/ Resize

Spec == Init /\ [][Next]_vars

-----------------------------------------------------------------------------
(* The program started with 100 as its argument and left alone: as many    *)
(* trials as the play area has cells, so that every non-empty set of its   *)
(* cells is a possible seeding, and sessions that run for many passes.     *)

InitDense ==
    /\ max_y \in MinY..MaxY
    /\ max_x \in TermMinX..(TermMinX + 1)
    /\ seed_percentage = 100
    /\ sleep_interval = InitialInterval
    /\ grid = << >>
    /\ next_grid = << >>
    /\ grandfather_grid = << >>
    /\ same_object = {}
    /\ iterations = 0
    /\ iter_counter_active = TRUE
    /\ changed = FALSE
    /\ key = "none"
    /\ stop = "none"
    /\ pc = "init"

-----------------------------------------------------------------------------
(* The program started with any integer as its argument: __main__ takes    *)
(* int(sys.argv[1]) as it comes.  Each session is followed up to its first *)
(* generation.                                                             *)

\* Values of sys.argv[1], in and out of 0 .. 100.
AnyPercentages == {-50, 0, 10, 34, 100, 150}

InitSeed ==
    /\ max_y \in MinY..MaxY
    /\ max_x \in MinX..MaxX
    /\ seed_percentage \in AnyPercentages
    /\ sleep_interval = InitialInterval
    /\ grid = << >>
    /\ next_grid = << >>
    /\ grandfather_grid = << >>
    /\ same_object = {}
    /\ iterations = 0
    /\ iter_counter_active = TRUE
    /\ changed = FALSE
    /\ key = "none"
    /\ stop = "none"
    /\ pc = "init"

NextSeed ==
    \/ StartSession
    \/ Advance

SeedSpec == InitSeed /\ [][NextSeed]_vars

-----------------------------------------------------------------------------
(* The program left alone: no key is ever waiting and the window is never  *)
(* resized.  The thread of control runs on, so every step that is enabled  *)
(* is eventually taken.                                                    *)

NextQuiet ==
    \/ StartSession
    \/ Advance
    \/ Install
    \/ CheckInput("none")
    \/ Classify

QuietSpec == Init /\ [][NextQuiet]_vars /\ WF_vars(NextQuiet)

DenseSpec == InitDense /\ [][NextQuiet]_vars

-----------------------------------------------------------------------------
(* The loop body applied to chosen grids: main()'s loop is entered with a  *)
(* grid of at most four live cells that all lie in the Moore neighbourhood *)
(* of one cell (the cell included), anywhere on the allocated grid, also   *)
(* in its last row and column and across its edges.  Among them are the    *)
(* grids of set_up_grid's hand-made seedings for the wrapping tests (lines *)
(* 193-207): the empty grid, single cells, triplets and 2 x 2 blocks.  The *)
(* loop body is run PatternSteps times on each.                            *)

PatternSteps == 2

Around(c, cols, rows) ==
    {<<(c[1] + dx) % (cols + 1), (c[2] + dy) % (rows + 1)>> :
        dx \in -1..1, dy \in -1..1}

PatternGrids(cols, rows) ==
    {[y \in 0..rows |-> [x \in 0..cols |->
         IF <<x, y>> \in S THEN alive_c ELSE dead_c]] :
     S \in UNION {{T \in SUBSET Around(c, cols, rows) : Cardinality(T) <= 4} :
                    c \in (0..cols) \X (0..rows)}}

InitPattern ==
    /\ max_y \in MinY..MaxY
    /\ max_x \in TermMinX..MaxX
    /\ seed_percentage = 10
    /\ sleep_interval = InitialInterval
    /\ grid \in PatternGrids(get_grid_dimensions(max_y, max_x)[1],
                             get_grid_dimensions(max_y, max_x)[2])
    /\ next_grid = << >>
    /\ grandfather_grid = << >>
    /\ same_object = {}
    /\ iterations = 0
    /\ iter_counter_active = TRUE
    /\ changed = FALSE
    /\ key = "none"
    /\ stop = "none"
    /\ pc = "advance"

NextPattern ==
    /\ iterations < PatternSteps
    /\ \/ Advance
       \/ Install
       \/ CheckInput("none")
       \/ Classify

PatternSpec == InitPattern /\ [][NextPattern]_vars

-----------------------------------------------------------------------------
(* The properties.                                                         *)

\* The Game of Life on a torus of w columns and h rows, by modular
\* arithmetic: what the cell at (x, y) of g becomes.
LiveNeighbours(g, x, y, w, h) ==
    Cardinality({d \in (-1..1) \X (-1..1) :
                   /\ d # <<0, 0>>
                   /\ g[(y + d[2]) % h][(x + d[1]) % w] = alive_c})

LifeCell(g, x, y, w, h) ==
    LET n == LiveNeighbours(g, x, y, w, h)
    IN  IF n = 3 \/ (n = 2 /\ g[y][x] = alive_c) THEN alive_c ELSE dead_c

\* C1: for every cell of the grid and every count n in 0..8 of live
\* neighbours, decide_fate returns Alive exactly when n = 3, or n = 2 and
\* the cell is Alive, and Dead for every other combination.
C1_DecideFate ==
    \A c \in CellsOf(grid) : \A n \in 0..8 :
        decide_fate(c[1], c[2], n, grid) =
            IF n = 3 \/ (n = 2 /\ grid[c[2]][c[1]] = alive_c)
            THEN alive_c ELSE dead_c

\* A step has been computed in which a live cell with two live neighbours
\* survived, a dead cell with three was born, a live cell with neither two
\* nor three died and a dead cell with two stayed dead.
C1_Witness ==
    /\ pc = "install"
    /\ \E c \in CellsOf(grid) :
         /\ grid[c[2]][c[1]] = alive_c
         /\ sum_adjecent_fields(c[1], c[2], grid) = 2
         /\ next_grid[c[2]][c[1]] = alive_c
    /\ \E c \in CellsOf(grid) :
         /\ grid[c[2]][c[1]] = dead_c
         /\ sum_adjecent_fields(c[1], c[2], grid) = 3
         /\ next_grid[c[2]][c[1]] = alive_c
    /\ \E c \in CellsOf(grid) :
         /\ grid[c[2]][c[1]] = alive_c
         /\ sum_adjecent_fields(c[1], c[2], grid) \notin {2, 3}
         /\ next_grid[c[2]][c[1]] = dead_c
    /\ \E c \in CellsOf(grid) :
         /\ grid[c[2]][c[1]] = dead_c
         /\ sum_adjecent_fields(c[1], c[2], grid) = 2
         /\ next_grid[c[2]][c[1]] = dead_c

\* C2 as claimed: a step produces a grid of the dimensions of its input in
\* which every cell of the play area [0, cols) x [0, rows) has the state the
\* Life rule gives it on the cols x rows torus of the previous grid.  (Play
\* areas of at least 3 x 3, where a cell's eight neighbours are distinct.)
C2_PlayAreaTorus ==
    (pc = "install" /\ len(grid[0]) > 3 /\ len(grid) > 3) =>
        LET cols == len(grid[0]) - 1
            rows == len(grid) - 1
        IN  /\ len(next_grid) = len(grid)
            /\ len(next_grid[0]) = len(grid[0])
            /\ \A x \in 0..(cols - 1), y \in 0..(rows - 1) :
                 next_grid[y][x] = LifeCell(grid, x, y, cols, rows)

\* C2 as amended: a step produces a grid in which every cell of the whole
\* allocated (cols+1) x (rows+1) grid has the state the Life rule gives it
\* on the (cols+1) x (rows+1) torus of the previous grid; the new grid is at
\* least as large as the previous one and its cells outside the previous
\* grid's extent are Dead.
C2_AllocatedTorus ==
    pc = "install" =>
        /\ len(next_grid) >= len(grid)
        /\ len(next_grid[0]) >= len(grid[0])
        /\ \A c \in CellsOf(grid) :
             next_grid[c[2]][c[1]] =
                 LifeCell(grid, c[1], c[2], len(grid[0]), len(grid))
        /\ \A c \in CellsOf(next_grid) \ CellsOf(grid) :
             next_grid[c[2]][c[1]] = dead_c

\* A step has been computed whose result has a live cell in the last row
\* or the last column of the allocated grid.
C2_Witness ==
    /\ pc = "install"
    /\ changed
    /\ \E c \in AliveCells(next_grid) :
         c[1] = len(next_grid[0]) - 1 \/ c[2] = len(next_grid) - 1

\* The grid the claim's examples are about: made for a 10 x 10 play area.
Grid10 == EmptyGrid(10, 10)

\* C3 as claimed: for the grid made for a cols x rows play area and every
\* (x, y) with -1 <= x <= cols and -1 <= y <= rows, wrap_border returns a
\* coordinate in [0, cols) x [0, rows); on a 10 x 10 grid (-1, 0) gives
\* (9, 0) and (10, 0) gives (0, 0).
C3_WrapIntoPlayArea ==
    grid # << >> =>
        LET cols == len(grid[0]) - 1
            rows == len(grid) - 1
        IN  /\ \A x \in -1..cols, y \in -1..rows :
                 wrap_border(x, y, grid) \in (0..(cols - 1)) \X (0..(rows - 1))
            /\ wrap_border(-1, 0, Grid10) = <<9, 0>>
            /\ wrap_border(10, 0, Grid10) = <<0, 0>>

\* C3 as amended: for the grid made for a cols x rows play area, which has
\* cols+1 columns and rows+1 rows, and every (x, y) with -1 <= x <= cols+1
\* and -1 <= y <= rows+1, wrap_border returns a coordinate in
\* [0, cols] x [0, rows], an index of the allocated grid: -1 gives the last
\* index and one past the last index gives 0.  On the grid made for a
\* 10 x 10 play area (-1, 0) gives (10, 0), (10, 0) is returned as it is
\* and (11, 0) gives (0, 0).
C3_WrapIntoAllocated ==
    grid # << >> =>
        LET cols == len(grid[0]) - 1
            rows == len(grid) - 1
        IN  /\ \A x \in -1..(cols + 1), y \in -1..(rows + 1) :
                 /\ wrap_border(x, y, grid) \in (0..cols) \X (0..rows)
                 /\ wrap_border(x, y, grid) =
                        <<x % (cols + 1), y % (rows + 1)>>
            /\ wrap_border(-1, 0, Grid10) = <<10, 0>>
            /\ wrap_border(10, 0, Grid10) = <<10, 0>>
            /\ wrap_border(11, 0, Grid10) = <<0, 0>>

\* A step has been computed on a seeded grid, so that wrap_border was
\* called with -1 and with one past the last index, in both directions.
C3_Witness ==
    /\ pc = "install"
    /\ AliveCells(grid) # {}
    /\ wrap_border(-1, -1, grid) = <<len(grid[0]) - 1, len(grid) - 1>>
    /\ wrap_border(len(grid[0]), len(grid), grid) = <<0, 0>>

\* C4: changed is false after a step exactly when no cell the step visited
\* differs between the previous and the new generation; and the end of a
\* step (no quit, re-seed or resize was polled) stops the session exactly
\* when changed is false, as Extinct if no cell is Alive and as Equilibrium
\* otherwise, and goes on to the next step when some cell changed.
C4_EquilibriumStop ==
    /\ [](pc = "install" =>
            (changed <=> \E c \in CellsOf(grid) :
                            next_grid[c[2]][c[1]] # grid[c[2]][c[1]]))
    /\ [][(pc = "classify" /\ pc' # "classify") =>
            IF changed
            THEN pc' = "advance" /\ stop' = "none"
            ELSE /\ pc' = "ack"
                 /\ stop' = IF AliveCells(grid) = {}
                            THEN "Extinct" ELSE "Equilibrium"]_vars

\* A session has stopped as Equilibrium with live cells on the grid.
C4_Witness ==
    /\ pc = "ack"
    /\ stop = "Equilibrium"
    /\ ~changed
    /\ AliveCells(grid) # {}

\* What one step makes of g when the window is the one g was made for.
NextGeneration(g) == traverse(g, EmptyGrid(len(g[0]) - 1, len(g) - 1))

\* A step starts on a grid that alternates between two distinct states.
Alternates ==
    /\ pc = "advance"
    /\ NextGeneration(grid) # grid
    /\ NextGeneration(NextGeneration(grid)) = grid

\* C5: left alone, a session whose grid alternates between two distinct
\* states is eventually flagged (iter_counter_active becomes false, with
\* room for the two counts that may precede it), and from the step at
\* which it is flagged the flag stays and iterations never changes.
C5_OscillationFreezes ==
    /\ (Alternates /\ iterations + 2 <= MaxIterations)
           ~> (~iter_counter_active)
    /\ [][~iter_counter_active =>
            (~iter_counter_active' /\ iterations' = iterations)]_vars

\* A flagged session stands at the start of a further step on its
\* alternating grid.
C5_Witness ==
    /\ Alternates
    /\ ~iter_counter_active
    /\ iterations > 0

\* C6: left alone, a flagged session never stops: it is always inside the
\* loop with no stop reason, and from the start of each step it goes on to
\* compute and render a further generation.
C6_OscillationKeepsRunning ==
    /\ [](~iter_counter_active =>
            (/\ pc \in {"advance", "install", "check_input", "classify"}
             /\ stop = "none"))
    /\ (~iter_counter_active /\ pc = "advance")
           ~> (~iter_counter_active /\ pc = "check_input")

\* A flagged session has computed and rendered a further generation.
C6_Witness ==
    /\ ~iter_counter_active
    /\ pc = "check_input"
    /\ changed
    /\ grid = next_grid

\* A step in which getch() returned: check_input's poll, pause()'s wait
\* after 'p', or pause()'s wait after equilibrium or extinction.
KeyRead == pc \in {"check_input", "pause", "ack"} /\ pc' # pc

\* C7 as claimed: Enter or Space read at any of the session's getch()
\* calls, the wait while paused included, ends the session (main() returns
\* and the next session is seeded), before any classification of the step.
C7_ReseedAtAnyTime ==
    [][(KeyRead /\ key' \in {"Enter", "Space"}) => pc' = "init"]_vars

\* C8: a 'q' read at any of the three getch() calls ends the program, and
\* nothing happens after the program has ended: no generation is computed
\* and no session is seeded.
C8_QuitEndsProgram ==
    /\ [][(KeyRead /\ key' = "q") => (pc' = "exit" /\ stop' = "Quit")]_vars
    /\ [][pc # "exit"]_vars

\* The program has ended on a 'q'.
C8_Witness ==
    /\ pc = "exit"
    /\ stop = "Quit"
    /\ key = "q"
    /\ grid = << >>

\* C9: sleep_interval is never negative; '+' read by check_input lowers it
\* by 50 but not below 0, '-' read by check_input raises it by 50, and no
\* other step changes it.
C9_IntervalFloored ==
    /\ [](sleep_interval >= 0)
    /\ [][IF pc = "check_input" /\ pc' # pc /\ key' = "+"
          THEN sleep_interval' =
                   IF sleep_interval >= 50 THEN sleep_interval - 50 ELSE 0
          ELSE IF pc = "check_input" /\ pc' # pc /\ key' = "-"
          THEN sleep_interval' = sleep_interval + 50
          ELSE sleep_interval' = sleep_interval]_vars

\* A speed-up has been floored: '+' was read at an interval below 50.
C9_Witness ==
    /\ pc = "classify"
    /\ key = "+"
    /\ sleep_interval = 0

\* The live cells of g are three cells side by side in one row, possibly
\* across the grid's edge.
HorizontalTriplet(g) ==
    \E c \in CellsOf(g) :
        AliveCells(g) = {<<(c[1] + d) % len(g[0]), c[2]>> : d \in 0..2}

\* C10: on a grid of at least 4 x 4 cells that holds only a horizontal
\* triplet, at any position and also across the edge, the first step
\* changes the grid (changed is true) and the second step reproduces the
\* original grid, which the snapshot of the first step holds.
C10_BlinkerPeriod2 ==
    /\ (/\ pc = "install"
        /\ iterations = 0
        /\ len(grid) >= 4 /\ len(grid[0]) >= 4
        /\ HorizontalTriplet(grid))
           => (changed /\ next_grid # grid)
    /\ (/\ pc = "install"
        /\ iterations = 1
        /\ iter_counter_active
        /\ len(grandfather_grid) >= 4 /\ len(grandfather_grid[0]) >= 4
        /\ HorizontalTriplet(grandfather_grid))
           => (changed /\ next_grid = grandfather_grid /\ next_grid # grid)

\* The second step has reproduced a triplet that lies across the edge.
C10_Witness ==
    /\ pc = "install"
    /\ iterations = 1
    /\ iter_counter_active
    /\ len(grandfather_grid) >= 4 /\ len(grandfather_grid[0]) >= 4
    /\ HorizontalTriplet(grandfather_grid)
    /\ \E y \in DOMAIN grandfather_grid :
         /\ grandfather_grid[y][0] = alive_c
         /\ grandfather_grid[y][len(grandfather_grid[0]) - 1] = alive_c
    /\ next_grid = grandfather_grid

\* The live cells of g are a 2 x 2 block, possibly across the grid's edges.
Block(g) ==
    \E c \in CellsOf(g) :
        AliveCells(g) = {<<(c[1] + dx) % len(g[0]), (c[2] + dy) % len(g)>> :
                            dx \in 0..1, dy \in 0..1}

\* C11: on a grid of at least 4 x 4 cells whose only live cells are a 2 x 2
\* block, at any position and also across the edges, a step computes an
\* identical grid and leaves changed false.
C11_BlockStillLife ==
    (/\ pc = "install"
     /\ len(grid) >= 4 /\ len(grid[0]) >= 4
     /\ Block(grid))
        => (~changed /\ next_grid = grid)

\* A step has been computed on a block that lies across both edges.
C11_Witness ==
    /\ pc = "install"
    /\ len(grid) >= 4 /\ len(grid[0]) >= 4
    /\ Block(grid)
    /\ grid[0][0] = alive_c
    /\ grid[len(grid) - 1][len(grid[0]) - 1] = alive_c
    /\ next_grid = grid
    /\ ~changed

\* C12: a step on a grid without live cells computes a grid without live
\* cells, on which check_for_extinction is true, and leaves changed false;
\* and the first step of a session whose seeded grid had no live cell ends
\* in the stop as Extinct.
C12_AllDeadIsExtinct ==
    /\ []((pc = "install" /\ AliveCells(grid) = {}) =>
            (/\ ~changed
             /\ AliveCells(next_grid) = {}
             /\ check_for_extinction(next_grid)))
    /\ [][(/\ pc = "classify" /\ pc' # pc
           /\ iterations = 0
           /\ grandfather_grid # << >>
           /\ AliveCells(grandfather_grid) = {})
             => (pc' = "ack" /\ stop' = "Extinct")]_vars

\* A session seeded without live cells has stopped as Extinct after its
\* first step.
C12_Witness ==
    /\ pc = "ack"
    /\ stop = "Extinct"
    /\ iterations = 0
    /\ grandfather_grid # << >>
    /\ AliveCells(grandfather_grid) = {}
    /\ AliveCells(grid) = {}

\* <<cols, rows>> of a grid as get_grid_dimensions counts them.
Dimensions(g) == <<len(g[0]) - 1, len(g) - 1>>

\* C13: when the window's grid dimensions differ from the current grid's
\* during a step, whether larger or smaller, the step aborts and the
\* session ends as resized; and no generation of other dimensions than the
\* current grid's is ever installed.
C13_ResizeAborts ==
    /\ [][(/\ pc = "advance" /\ pc' # pc
           /\ get_grid_dimensions(max_y, max_x) # Dimensions(grid))
             => (pc' = "init" /\ stop' = "IndexError")]_vars
    /\ [][(grid # << >> /\ grid' # << >>)
             => Dimensions(grid') = Dimensions(grid)]_vars

\* main() has seeded its grid and not yet computed a generation.
JustSeeded == pc = "advance" /\ next_grid = << >>

\* The cells of [0, cols) x [0, rows) of a grid.
PlayArea(g) == {c \in CellsOf(g) : c[1] < len(g[0]) - 1 /\ c[2] < len(g) - 1}

\* C14 as stated: a seeding with a percentage below 0 or above 100, or with
\* a non-positive number of columns or rows, is rejected: no grid is made
\* and no generation is computed from it.
C14_InvalidSeedRejected ==
    (\/ seed_percentage < 0
     \/ seed_percentage > 100
     \/ get_grid_dimensions(max_y, max_x)[1] <= 0
     \/ get_grid_dimensions(max_y, max_x)[2] <= 0)
        => (grid = << >> /\ next_grid = << >>)

\* C14, amended: no seeding is rejected.  In a window init_curses accepts,
\* set_up_grid returns a grid for every percentage: an all-dead one for a
\* percentage below 0 and one with live cells in the play area for a
\* percentage above 100; and the dimensions of a grid that was seeded are
\* positive, since init_curses ends the program in a smaller window.
C14_NoSeedRejected ==
    /\ (pc = "init" /\ max_y >= TermMinY /\ max_x >= TermMinX)
          => set_up_grid(max_y, max_x, seed_percentage, TRUE) # {}
    /\ (JustSeeded /\ seed_percentage < 0) => AliveCells(grid) = {}
    /\ (JustSeeded /\ seed_percentage > 100)
          => (/\ AliveCells(grid) # {}
              /\ AliveCells(grid) \subseteq PlayArea(grid))
    /\ grid # << >>
          => (Dimensions(grid)[1] > 0 /\ Dimensions(grid)[2] > 0)

\* A generation has been computed from a grid seeded with more than 100
\* percent.
C14_Witness ==
    /\ pc = "install"
    /\ seed_percentage > 100
    /\ AliveCells(grid) # {}
    /\ next_grid # << >>
    /\ changed

\* round(pct / 100.0 * n) for pct * n >= 0
Round(pct, n) == (2 * pct * n + 100) \div 200

\* C15: after a seeding of cols x rows with a percentage of 0 .. 100, every
\* live cell lies in [0, cols) x [0, rows), there are at most
\* round(percentage / 100 * rows * cols) live cells, and none at 0 percent.
C15_SeededGrid ==
    (JustSeeded /\ seed_percentage \in 0..100) =>
        LET cols == get_grid_dimensions(max_y, max_x)[1]
            rows == get_grid_dimensions(max_y, max_x)[2]
        IN  /\ Dimensions(grid) = <<cols, rows>>
            /\ \A c \in AliveCells(grid) :
                 c[1] \in 0..(cols - 1) /\ c[2] \in 0..(rows - 1)
            /\ Cardinality(AliveCells(grid))
                 <= Round(seed_percentage, rows * cols)
            /\ seed_percentage = 0 => AliveCells(grid) = {}

\* A seeding with 100 percent that left some cell of the play area dead.
C15_Witness ==
    /\ JustSeeded
    /\ seed_percentage = 100
    /\ AliveCells(grid) # {}
    /\ Cardinality(AliveCells(grid)) < Cardinality(PlayArea(grid))

\* The snapshot is the generation one step, or two steps, before grid.
OneBefore == NextGeneration(grandfather_grid) = grid
TwoBefore == NextGeneration(NextGeneration(grandfather_grid)) = grid

\* C16 as stated: in every state the snapshot is absent or is the grid of
\* exactly two generations before the current grid.
C16_SnapshotTwoBefore == grandfather_grid = << >> \/ TwoBefore

\* C16, amended: in a session left alone, the snapshot is absent exactly
\* until the first generation is installed.  While the counter runs, the
\* snapshot is one generation before grid at the comparison of an even
\* pass and two before at the comparison of an odd pass (and, when the
\* next pass starts, one before at an odd count and two before at an even
\* count).  Once the counter is frozen the snapshot is never replaced.
C16_SnapshotAge ==
    /\ [](grandfather_grid = << >> <=>
            (\/ pc \in {"init", "exit"}
             \/ (iterations = 0 /\ pc \in {"advance", "install"})))
    /\ []((iter_counter_active /\ pc \in {"check_input", "classify"}) =>
            IF iterations % 2 = 0 THEN OneBefore ELSE TwoBefore)
    /\ []((/\ iter_counter_active /\ iterations > 0
           /\ pc \in {"advance", "install"}) =>
            IF iterations % 2 = 0 THEN TwoBefore ELSE OneBefore)
    /\ [][~iter_counter_active =>
            grandfather_grid' = grandfather_grid]_vars

\* At the comparison of an even pass after the first, the snapshot is the
\* generation just before grid and not the one two before it.
C16_Witness ==
    /\ pc = "classify"
    /\ iter_counter_active
    /\ iterations >= 2 /\ iterations % 2 = 0
    /\ changed
    /\ OneBefore
    /\ ~TwoBefore

\* The cells of the buffer row and the buffer column of a grid.
Buffer(g) == CellsOf(g) \ PlayArea(g)

\* The coordinates sum_adjecent_fields reads for the cell c of g.
Lookups(c, g) ==
    {wrap_border(c[1] + dx, c[2] + dy, g) :
        dx \in -1..1, dy \in -1..1} \ {c}

\* C17 as stated: in every state the cells of the buffer row and the buffer
\* column are dead, and the neighbour lookups for the cells of the play
\* area never read a buffer cell.
C17_BufferDead ==
    /\ \A g \in {grid, next_grid, grandfather_grid} :
         AliveCells(g) \cap Buffer(g) = {}
    /\ \A c \in PlayArea(grid) : Lookups(c, grid) \cap Buffer(grid) = {}

\* C17, amended: the buffer row and column are dead in a grid that was just
\* seeded.  They are part of the torus: the lookups for the play area's
\* cells in column 0 read the buffer column and those for its cells in row
\* 0 read the buffer row, and a step gives a buffer cell the value the rule
\* gives it.
C17_BufferInTorus ==
    /\ JustSeeded => AliveCells(grid) \cap Buffer(grid) = {}
    /\ \A c \in PlayArea(grid) :
         /\ c[1] = 0 => <<len(grid[0]) - 1, c[2]>> \in Lookups(c, grid)
         /\ c[2] = 0 => <<c[1], len(grid) - 1>> \in Lookups(c, grid)
    /\ pc = "install" =>
         \A c \in Buffer(grid) :
             next_grid[c[2]][c[1]] = new_value(c[1], c[2], grid)

\* The installed grid of a session has a live cell in its buffer row or
\* column, next to the play area's cell that will read it.
C17_Witness ==
    /\ pc = "check_input"
    /\ \E c \in PlayArea(grid) :
         \E b \in Lookups(c, grid) \cap Buffer(grid) :
             grid[b[2]][b[1]] = alive_c

\* C18: a step does not modify the grid it reads: after it the grid and the
\* snapshot have the cell values they had before it, the list it wrote is
\* bound to no other name, and a snapshot keeps its value until the
\* snapshot of a later even pass replaces it or the session ends.
C18_StepLeavesItsInput ==
    /\ [][(pc = "advance" /\ pc' = "install") =>
            (grid' = grid /\ grandfather_grid' = grandfather_grid)]_vars
    /\ [](pc = "install" => \A p \in same_object : "next_grid" \notin p)
    /\ [][(grandfather_grid # << >> /\ grandfather_grid' # grandfather_grid)
            => \/ pc' \in {"init", "exit"}
               \/ (/\ pc = "install" /\ pc' = "check_input"
                   /\ iterations % 2 = 0
                   /\ grandfather_grid' = grid)]_vars

\* A later step has computed a generation that differs from the grid it
\* read and from the snapshot held.
C18_Witness ==
    /\ pc = "install"
    /\ iterations > 0
    /\ changed
    /\ grandfather_grid # << >>
    /\ next_grid # grid
    /\ next_grid # grandfather_grid
    /\ grid # grandfather_grid

\* C19: the counter is frozen only at a comparison whose new generation is
\* the generation of two passes earlier, held by the snapshot, and differs
\* from the generation just before it; so a frozen session's grid
\* alternates between two states, and a session whose generations never
\* repeat in this way is never flagged.
C19_FlagOnlyOnRepeat ==
    /\ [][(iter_counter_active /\ ~iter_counter_active') =>
            (/\ pc = "classify"
             /\ changed
             /\ grid = grandfather_grid
             /\ TwoBefore
             /\ ~OneBefore)]_vars
    /\ [](~iter_counter_active =>
            (/\ NextGeneration(NextGeneration(grid)) = grid
             /\ NextGeneration(grid) # grid))

\* A session has been flagged after its third pass or later.
C19_Witness ==
    /\ pc = "advance"
    /\ ~iter_counter_active
    /\ iterations >= 3
    /\ grid = grandfather_grid
    /\ NextGeneration(grid) # grid

\* C20: left alone, a session that computes a generation equal to the one
\* of two passes earlier and different from the one before it is flagged at
\* that pass when the count is odd and at the next pass when it is even,
\* never later: no even pass after the first starts with the counter
\* running on the grid its snapshot holds.  The flag is raised at an odd
\* count only, so a frozen counter is odd.
C20_FlagAtOnceOrNext ==
    /\ [][(/\ pc = "classify" /\ pc' # pc
           /\ iter_counter_active
           /\ iterations % 2 = 1
           /\ changed
           /\ grid = grandfather_grid) => ~iter_counter_active']_vars
    /\ []((/\ pc = "install"
           /\ iter_counter_active
           /\ iterations >= 2 /\ iterations % 2 = 0
           /\ next_grid # grid
           /\ next_grid = NextGeneration(grandfather_grid))
             => NextGeneration(next_grid) = grid)
    /\ []((/\ pc = "advance"
           /\ iter_counter_active
           /\ iterations >= 2 /\ iterations % 2 = 0)
             => grid # grandfather_grid)
    /\ [][(iter_counter_active /\ ~iter_counter_active') =>
            (iterations % 2 = 1 /\ iterations' = iterations)]_vars
    /\ [](~iter_counter_active => iterations % 2 = 1)

\* An even pass has computed the generation of two passes earlier; the
\* counter is still running.
C20_Witness ==
    /\ pc = "install"
    /\ iter_counter_active
    /\ iterations >= 2 /\ iterations % 2 = 0
    /\ next_grid # grid
    /\ next_grid = NextGeneration(grandfather_grid)

====
